---- MODULE Spec2Model ----
(***************************************************************************)
(* Model of the notes backend, src/notes_backend/src/api/main.py:          *)
(* the in-memory NOTES_STORE, the pydantic schemas NoteCreate/NoteUpdate   *)
(* with their validators, and the six FastAPI handlers.                    *)
(*                                                                         *)
(* Requests are handled one after another (each handler is one action).    *)
(* A request body is a JSON object; each of its fields is absent, null,    *)
(* a non-string value, or a string.  A string is a sequence of characters. *)
(***************************************************************************)
EXTENDS Integers, Sequences, FiniteSets, TLC

\* ------------------------------------------------------------------ bounds
\* Number of distinct UUID values uuid4() can hand out in a run.
NumIds == 2
\* Longest string a request body carries.
MaxLen == 2
\* Number of requests handled at the same time, each on a thread of its own.
NumThreads == 3

\* ------------------------------------------------------------ value spaces
\* Characters: one whitespace character and one other character.
Chars == {" ", "a"}
Whitespace == {" "}
Strings == UNION {[1..n -> Chars] : n \in 0..MaxLen}

\* JSON values of a body field.  JAbsent: the key is not in the object.
JStr(s) == [k |-> "str", s |-> s]
JNull == [k |-> "null", s |-> <<>>]
JNum == [k |-> "num", s |-> <<>>]
JAbsent == [k |-> "absent", s |-> <<>>]
JsonValues == {JStr(s) : s \in Strings} \cup {JNull, JNum, JAbsent}

\* Well-formed UUIDs; a path segment that does not parse as a UUID; and the
\* marker for "no id" (a body without an "id" key, a request without a path id).
UUIDs == 1..NumIds
Malformed == 0
NoId == 0 - 1
PathValues == UUIDs \cup {Malformed}

Fields == {"title", "content"}

\* Request bodies.  A PUT body may carry an extra "id" key (NoId: no such key).
\* The bodies tried are those in which one field takes every JSON value while
\* the other is the plain string "a" (POST) or is left out (PUT), the PUT body
\* supplying both fields, and PUT bodies with an "id" key.  A PUT on a path
\* that is no UUID is tried with the bodies of MalformedPutBodies.
Body(t, c, i) == [title |-> t, content |-> c, id |-> i]
NoBody == Body(JAbsent, JAbsent, NoId)
Plain == JStr(<<"a">>)
PostBodies ==
  {Body(v, Plain, NoId) : v \in JsonValues} \cup {Body(Plain, v, NoId) : v \in JsonValues}
PutBodies ==
  {Body(v, JAbsent, NoId) : v \in JsonValues}
    \cup {Body(JAbsent, v, NoId) : v \in JsonValues}
    \cup {Body(Plain, Plain, NoId)}
    \cup {Body(Plain, JAbsent, i) : i \in UUIDs}
MalformedPutBodies ==
  {NoBody, Body(Plain, JAbsent, NoId), Body(JStr(<<>>), JAbsent, NoId)}

\* ------------------------------------------------------------ python str
\* str.strip(): remove leading and trailing whitespace.
RECURSIVE lstrip(_)
lstrip(v) == IF v # <<>> /\ Head(v) \in Whitespace THEN lstrip(Tail(v)) ELSE v

RECURSIVE rstrip(_)
rstrip(v) ==
  IF v # <<>> /\ v[Len(v)] \in Whitespace THEN rstrip(SubSeq(v, 1, Len(v) - 1)) ELSE v

strip(v) == rstrip(lstrip(v))

\* ------------------------------------------------------- pydantic schemas
\* Result of validating one field: ok, and the value the validator returns.
Ok(v) == [ok |-> TRUE, v |-> v]
Err(v) == [ok |-> FALSE, v |-> v]

\* not_empty comparing the untrimmed value with "": whitespace-only passes.
not_empty_untrimmed_test(v) ==
  IF v.k # "str" THEN Err(v)
  ELSE IF v.s = <<>> THEN Err(v)
  ELSE Ok(JStr(strip(v.s)))

\* not_empty returning v instead of v.strip().
not_empty_no_trim(v) ==
  IF v.k # "str" THEN Err(v)
  ELSE IF strip(v.s) = <<>> THEN Err(v)
  ELSE Ok(v)

\* NoteBase.not_empty
not_empty(v) ==
  IF v.k # "str" THEN Err(v)
  ELSE IF strip(v.s) = <<>> THEN Err(v)
  ELSE Ok(JStr(strip(v.s)))

\* NoteUpdate.not_empty_when_present
not_empty_when_present(v) ==
  IF v = JNull THEN Ok(v)
  ELSE IF v.k # "str" THEN Err(v)
  ELSE IF strip(v.s) = <<>> THEN Err(v)
  ELSE Ok(JStr(strip(v.s)))

\* A field declared `str = Field(...)`: required, and only a string passes
\* the type check that runs before the field validator.
RequiredStr(v) == IF v.k = "str" THEN not_empty(v) ELSE Err(v)

\* A field declared `Optional[str] = Field(None)`: when the key is absent the
\* default None is used and the validator is not run; null and strings pass
\* the type check and go through the validator.
OptionalStr(v) ==
  IF v = JAbsent THEN Ok(JNull)
  ELSE IF v.k \in {"str", "null"} THEN not_empty_when_present(v)
  ELSE Err(v)

\* NoteCreate(**body): the validated payload, or a validation error.
\* Keys other than title and content are ignored.
NoteCreate(body) ==
  [ok |-> \A f \in Fields : RequiredStr(body[f]).ok,
   data |-> [f \in Fields |-> RequiredStr(body[f]).v],
   fields_set |-> Fields]

\* NoteUpdate(**body); extra keys allowed into the payload (used to vary NoteUpdate).
NoteUpdateExtraAllowed(body) ==
  [ok |-> \A f \in Fields : OptionalStr(body[f]).ok,
   data |-> [f \in Fields \cup {"id"} |->
               IF f = "id" THEN body.id ELSE OptionalStr(body[f]).v],
   fields_set |-> {f \in Fields : body[f] # JAbsent}
                    \cup (IF body.id # NoId THEN {"id"} ELSE {})]

\* NoteUpdate(**body): fields_set holds the keys the body supplied
\* (a key supplied as null counts as supplied).
NoteUpdate(body) ==
  [ok |-> \A f \in Fields : OptionalStr(body[f]).ok,
   data |-> [f \in Fields |-> OptionalStr(body[f]).v],
   fields_set |-> {f \in Fields : body[f] # JAbsent}]

\* payload.model_dump() without exclude_unset: unset fields come out as None.
model_dump_all(payload) == payload.data

\* payload.model_dump(exclude_unset=True)
model_dump(payload) == [f \in payload.fields_set |-> payload.data[f]]

\* existing.model_copy(update=update): a copy with the given fields replaced,
\* without validation.
model_copy(existing, update) ==
  [f \in DOMAIN existing |-> IF f \in DOMAIN update THEN update[f] ELSE existing[f]]

\* Note(id=..., title=..., content=...): the NoteBase validators run again on
\* construction.
Note(id, title, content) ==
  [id |-> id, title |-> not_empty(title).v, content |-> not_empty(content).v]

\* Python None where a Note is expected (dict.get on a missing key).
None == [id |-> NoId, title |-> JNull, content |-> JNull]

\* ------------------------------------------------------------ python dict
\* A dict is kept as the sequence of its entries in insertion order.
Entry(k, v) == [key |-> k, note |-> v]
Keys(d) == {d[n].key : n \in 1..Len(d)}
IndexOf(d, k) == CHOOSE n \in 1..Len(d) : d[n].key = k

\* d.get(k)
dict_get(d, k) == IF k \in Keys(d) THEN d[IndexOf(d, k)].note ELSE None

\* A store that appends on every assignment (a list in place of the dict).
dict_set_append(d, k, v) == Append(d, Entry(k, v))

\* An assignment that moves an existing key to the end (pop, then insert).
dict_set_move_to_end(d, k, v) ==
  Append(SelectSeq(d, LAMBDA e : e.key # k), Entry(k, v))

\* d[k] = v: an existing key keeps its position, a new key goes last.
dict_set(d, k, v) ==
  IF k \in Keys(d)
  THEN [d EXCEPT ![IndexOf(d, k)] = Entry(k, v)]
  ELSE Append(d, Entry(k, v))

\* A removal that drops the oldest entry, whatever the key.
dict_del_oldest(d, k) == Tail(d)

\* A removal that removes nothing.
dict_del_noop(d, k) == d

\* del d[k]
dict_del(d, k) ==
  LET n == IndexOf(d, k) IN SubSeq(d, 1, n - 1) \o SubSeq(d, n + 1, Len(d))

\* list(d.values())
dict_values(d) == [n \in 1..Len(d) |-> d[n].note]

\* ------------------------------------------------------------------ state
VARIABLES
  NOTES_STORE,  \* the dict of notes, keyed by UUID
  issued,       \* the values uuid4() has returned so far
  req,          \* the request handled last
  resp,         \* the response to it
  \* what a client has observed, kept to state properties over a run:
  created,      \* ids returned by a 201 response to POST /notes
  deleted,      \* ids for which DELETE answered 204
  everKeys,     \* ids that have been a key of NOTES_STORE at some time
  lastSeen,     \* per id, the note in the last 201 or 200 (PUT) response for it
  pristine,     \* per id, the body of the POST that created it, until a
                \* PUT or DELETE on that id succeeds
  order,        \* the ids returned by 201 responses, in the order of the responses
  threads       \* per worker thread, the request it handles and where it
                \* stands in the handler (used when requests interleave)

vars ==
  <<NOTES_STORE, issued, req, resp, created, deleted, everKeys, lastSeen, pristine, order,
    threads>>
observed == <<created, deleted, everKeys, lastSeen, pristine>>

\* A request as routed to a handler, and the handler's answer: the status code
\* and the value returned or the detail of the exception raised.  Serialising
\* the returned value through response_model is not modelled.
Request(op, id, body) == [op |-> op, id |-> id, body |-> body]
Response(status, note, detail, list) ==
  [status |-> status, note |-> note, detail |-> detail, list |-> list]

\* HTTPException(status_code=404, detail="Note not found")
NotFound == Response(404, None, "Note not found", <<>>)
\* FastAPI's answer when a path parameter or the body fails validation;
\* the handler function is not called.
Unprocessable == Response(422, None, "validation error", <<>>)

\* The path parameter typed `str`: every path segment is accepted.
PathIsAnything(p) == TRUE

\* `note_id: UUID = Path(...)`: does the path segment parse as a UUID?
PathIsUUID(p) == p \in UUIDs

\* uuid4(): the values a call may return.  A version-4 UUID is 122 random
\* bits; a call is taken never to repeat a value an earlier call returned.
uuid4 == UUIDs \ issued

\* A worker thread: the request it was given, the line of the handler it is
\* about to run (pc), the handler's local `existing`, and the status answered.
Threads == 1..NumThreads
Thread(pc, op, path, body, existing, status) ==
  [pc |-> pc, op |-> op, path |-> path, body |-> body, existing |-> existing,
   status |-> status]
Idle == Thread("idle", "none", NoId, NoBody, None, 0)

Init ==
  /\ NOTES_STORE = <<>>
  /\ issued = {}
  /\ req = Request("none", NoId, NoBody)
  /\ resp = Response(0, None, "", <<>>)
  /\ created = {}
  /\ deleted = {}
  /\ everKeys = {}
  /\ lastSeen = [i \in UUIDs |-> None]
  /\ pristine = [i \in UUIDs |-> NoBody]
  /\ order = <<>>
  /\ threads = [t \in Threads |-> Idle]

\* --------------------------------------------------------------- handlers
\* GET /
health_check ==
  /\ req' = Request("health_check", NoId, NoBody)
  /\ resp' = Response(200, None, "Healthy", <<>>)
  /\ UNCHANGED <<NOTES_STORE, issued, observed>>

\* GET /notes
list_notes ==
  /\ req' = Request("list_notes", NoId, NoBody)
  /\ resp' = Response(200, None, "", dict_values(NOTES_STORE))
  /\ UNCHANGED <<NOTES_STORE, issued, observed>>

\* POST /notes
create_note(body) ==
  LET payload == NoteCreate(body) IN
  /\ req' = Request("create_note", NoId, body)
  /\ IF ~payload.ok
     THEN /\ resp' = Unprocessable
          /\ UNCHANGED <<NOTES_STORE, issued, observed>>
     ELSE \E note_id \in uuid4 :
            LET note == Note(note_id, payload.data.title, payload.data.content) IN
            /\ issued' = issued \cup {note_id}
            /\ NOTES_STORE' = dict_set(NOTES_STORE, note_id, note)
            /\ resp' = Response(201, note, "", <<>>)
            /\ created' = created \cup {note.id}
            /\ everKeys' = everKeys \cup Keys(NOTES_STORE')
            /\ lastSeen' = [lastSeen EXCEPT ![note.id] = note]
            /\ pristine' = [pristine EXCEPT ![note.id] = body]
            /\ UNCHANGED deleted

\* GET /notes/{note_id}
get_note(path) ==
  /\ req' = Request("get_note", path, NoBody)
  /\ IF ~PathIsUUID(path)
     THEN resp' = Unprocessable
     ELSE LET note == dict_get(NOTES_STORE, path) IN
          IF note = None
          THEN resp' = NotFound
          ELSE resp' = Response(200, note, "", <<>>)
  /\ UNCHANGED <<NOTES_STORE, issued, observed>>

\* update_note creating the note when the id is absent (an upsert).
update_note_upsert(path, body) ==
  LET payload == NoteUpdate(body) IN
  /\ req' = Request("update_note", path, body)
  /\ IF ~PathIsUUID(path) \/ ~payload.ok
     THEN /\ resp' = Unprocessable
          /\ UNCHANGED <<NOTES_STORE, issued, observed>>
     ELSE LET found == dict_get(NOTES_STORE, path)
              existing == IF found = None THEN [None EXCEPT !.id = path] ELSE found
              updated == model_copy(existing, model_dump(payload))
          IN /\ NOTES_STORE' = dict_set(NOTES_STORE, path, updated)
             /\ resp' = Response(200, updated, "", <<>>)
             /\ everKeys' = everKeys \cup Keys(NOTES_STORE')
             /\ lastSeen' = [lastSeen EXCEPT ![path] = updated]
             /\ pristine' = [pristine EXCEPT ![path] = NoBody]
             /\ UNCHANGED <<issued, created, deleted>>

\* update_note looking the id up before the body is validated (the body taken
\* as a plain dict and validated inside the handler).
update_note_lookup_first(path, body) ==
  LET payload == NoteUpdate(body) IN
  /\ req' = Request("update_note", path, body)
  /\ IF ~PathIsUUID(path)
     THEN /\ resp' = Unprocessable
          /\ UNCHANGED <<NOTES_STORE, issued, observed>>
     ELSE LET existing == dict_get(NOTES_STORE, path) IN
          IF existing = None
          THEN /\ resp' = NotFound
               /\ UNCHANGED <<NOTES_STORE, issued, observed>>
          ELSE IF ~payload.ok
          THEN /\ resp' = Unprocessable
               /\ UNCHANGED <<NOTES_STORE, issued, observed>>
          ELSE LET updated == model_copy(existing, model_dump(payload)) IN
               /\ NOTES_STORE' = dict_set(NOTES_STORE, path, updated)
               /\ resp' = Response(200, updated, "", <<>>)
               /\ everKeys' = everKeys \cup Keys(NOTES_STORE')
               /\ lastSeen' = [lastSeen EXCEPT ![path] = updated]
               /\ pristine' = [pristine EXCEPT ![path] = NoBody]
               /\ UNCHANGED <<issued, created, deleted>>

\* PUT /notes/{note_id}
update_note(path, body) ==
  LET payload == NoteUpdate(body) IN
  /\ req' = Request("update_note", path, body)
  /\ IF ~PathIsUUID(path) \/ ~payload.ok
     THEN /\ resp' = Unprocessable
          /\ UNCHANGED <<NOTES_STORE, issued, observed>>
     ELSE LET existing == dict_get(NOTES_STORE, path) IN
          IF existing = None
          THEN /\ resp' = NotFound
               /\ UNCHANGED <<NOTES_STORE, issued, observed>>
          ELSE LET updated == model_copy(existing, model_dump(payload)) IN
               /\ NOTES_STORE' = dict_set(NOTES_STORE, path, updated)
               /\ resp' = Response(200, updated, "", <<>>)
               /\ everKeys' = everKeys \cup Keys(NOTES_STORE')
               /\ lastSeen' = [lastSeen EXCEPT ![path] = updated]
               /\ pristine' = [pristine EXCEPT ![path] = NoBody]
               /\ UNCHANGED <<issued, created, deleted>>

\* delete_note without the membership test (NOTES_STORE.pop(note_id, None)).
delete_note_unchecked(path) ==
  /\ req' = Request("delete_note", path, NoBody)
  /\ IF ~PathIsUUID(path)
     THEN /\ resp' = Unprocessable
          /\ UNCHANGED <<NOTES_STORE, issued, observed>>
     ELSE /\ NOTES_STORE' = IF path \in Keys(NOTES_STORE)
                            THEN dict_del(NOTES_STORE, path) ELSE NOTES_STORE
          /\ resp' = Response(204, None, "", <<>>)
          /\ deleted' = deleted \cup {path}
          /\ pristine' = [pristine EXCEPT ![path] = NoBody]
          /\ UNCHANGED <<issued, created, everKeys, lastSeen>>

\* DELETE /notes/{note_id}
delete_note(path) ==
  /\ req' = Request("delete_note", path, NoBody)
  /\ IF ~PathIsUUID(path)
     THEN /\ resp' = Unprocessable
          /\ UNCHANGED <<NOTES_STORE, issued, observed>>
     ELSE IF path \notin Keys(NOTES_STORE)
     THEN /\ resp' = NotFound
          /\ UNCHANGED <<NOTES_STORE, issued, observed>>
     ELSE /\ NOTES_STORE' = dict_del(NOTES_STORE, path)
          /\ resp' = Response(204, None, "", <<>>)
          /\ deleted' = deleted \cup {path}
          /\ pristine' = [pristine EXCEPT ![path] = NoBody]
          /\ UNCHANGED <<issued, created, everKeys, lastSeen>>

Post == \E body \in PostBodies : create_note(body)
Get == \E path \in PathValues : get_note(path)
Put ==
  \/ \E path \in UUIDs, body \in PutBodies : update_note(path, body)
  \/ \E body \in MalformedPutBodies : update_note(Malformed, body)
Delete == \E path \in PathValues : delete_note(path)

\* The order of creation as a client sees it: the ids of the 201 responses.
Observe ==
  order' = IF req'.op = "create_note" /\ resp'.status = 201
           THEN Append(order, resp'.note.id)
           ELSE order

\* One request handled from start to end, no other request in between.
Serial(handler) == handler /\ Observe /\ UNCHANGED threads

Next ==
  \/ Serial(health_check)
  \/ Serial(list_notes)
  \/ Serial(Post)
  \/ Serial(Get)
  \/ Serial(Put)
  \/ Serial(Delete)

Spec == Init /\ [][Next]_vars

\* ------------------------------------------------- interleaved handlers
\* The handlers are plain `def` functions, which FastAPI runs on worker
\* threads: requests overlap, and a thread switch can fall between any two
\* accesses to NOTES_STORE.  Each access (get, membership test, assignment,
\* del) is one step.  A thread handles one request.
TwoChars == JStr(<<"a", "a">>)
ThreadPutBodies ==
  {Body(TwoChars, JAbsent, NoId), Body(JAbsent, TwoChars, NoId),
   Body(JStr(<<" ">>), JAbsent, NoId)}

Done(t, status) == [threads EXCEPT ![t].pc = "done", ![t].status = status]
At(t, op, pc) == threads[t].op = op /\ threads[t].pc = pc

\* A request reaches a thread; path and body are validated before the
\* handler is entered.
receive(t, op, path, body) ==
  /\ threads[t].pc = "idle"
  /\ threads' =
       [threads EXCEPT ![t] =
          IF op = "update_note" /\ ~NoteUpdate(body).ok
          THEN Thread("done", op, path, body, None, 422)
          ELSE Thread("entered", op, path, body, None, 0)]
  /\ UNCHANGED <<NOTES_STORE, issued, deleted>>

\* create_note, lines 129-132.
create_note_129(t) ==
  /\ At(t, "create_note", "entered")
  /\ \E note_id \in uuid4 :
       LET payload == NoteCreate(threads[t].body)
           note == Note(note_id, payload.data.title, payload.data.content)
       IN /\ issued' = issued \cup {note_id}
          /\ NOTES_STORE' = dict_set(NOTES_STORE, note_id, note)
          /\ threads' = Done(t, 201)
  /\ UNCHANGED deleted

\* get_note, lines 158-161.
get_note_158(t) ==
  /\ At(t, "get_note", "entered")
  /\ threads' = Done(t, IF dict_get(NOTES_STORE, threads[t].path) = None
                        THEN 404 ELSE 200)
  /\ UNCHANGED <<NOTES_STORE, issued, deleted>>

\* update_note, lines 189-191: the lookup.
update_note_189(t) ==
  /\ At(t, "update_note", "entered")
  /\ LET existing == dict_get(NOTES_STORE, threads[t].path) IN
     threads' = IF existing = None
                THEN Done(t, 404)
                ELSE [threads EXCEPT ![t].pc = "found", ![t].existing = existing]
  /\ UNCHANGED <<NOTES_STORE, issued, deleted>>

\* update_note, lines 193-195: the copy of `existing` and the write.
update_note_193(t) ==
  /\ At(t, "update_note", "found")
  /\ LET updated ==
           model_copy(threads[t].existing, model_dump(NoteUpdate(threads[t].body)))
     IN NOTES_STORE' = dict_set(NOTES_STORE, threads[t].path, updated)
  /\ threads' = Done(t, 200)
  /\ UNCHANGED <<issued, deleted>>

\* delete_note, lines 221-222: the membership test.
delete_note_221(t) ==
  /\ At(t, "delete_note", "entered")
  /\ threads' = IF threads[t].path \notin Keys(NOTES_STORE)
                THEN Done(t, 404)
                ELSE [threads EXCEPT ![t].pc = "found"]
  /\ UNCHANGED <<NOTES_STORE, issued, deleted>>

\* delete_note, lines 223-224: del raises KeyError when the key is gone, which
\* nothing catches: the request ends in 500.
delete_note_223(t) ==
  /\ At(t, "delete_note", "found")
  /\ IF threads[t].path \in Keys(NOTES_STORE)
     THEN /\ NOTES_STORE' = dict_del(NOTES_STORE, threads[t].path)
          /\ deleted' = deleted \cup {threads[t].path}
          /\ threads' = Done(t, 204)
     ELSE /\ threads' = Done(t, 500)
          /\ UNCHANGED <<NOTES_STORE, deleted>>
  /\ UNCHANGED issued

Receive ==
  \E t \in Threads :
    \/ receive(t, "create_note", NoId, Body(Plain, Plain, NoId))
    \/ \E path \in UUIDs : receive(t, "get_note", path, NoBody)
    \/ \E path \in UUIDs, body \in ThreadPutBodies : receive(t, "update_note", path, body)
    \/ \E path \in UUIDs : receive(t, "delete_note", path, NoBody)

\* The variables of the serial runs stay as they are.
Threaded(step) ==
  step /\ UNCHANGED <<req, resp, created, everKeys, lastSeen, pristine, order>>

NextThreads ==
  \/ Threaded(Receive)
  \/ \E t \in Threads : Threaded(create_note_129(t))
  \/ \E t \in Threads : Threaded(get_note_158(t))
  \/ \E t \in Threads : Threaded(update_note_189(t))
  \/ \E t \in Threads : Threaded(update_note_193(t))
  \/ \E t \in Threads : Threaded(delete_note_221(t))
  \/ \E t \in Threads : Threaded(delete_note_223(t))

SpecThreads == Init /\ [][NextThreads]_vars

\* ------------------------------------------------------------- properties
\* Vocabulary of the properties, stated without the handlers' own helpers.
Blank(v) == \A n \in 1..Len(v) : v[n] \in Whitespace
Trimmed(v) == v # <<>> /\ v[1] \notin Whitespace /\ v[Len(v)] \notin Whitespace
\* s is v with its leading and trailing whitespace removed.
IsTrimOf(s, v) ==
  /\ s = <<>> \/ Trimmed(s)
  /\ \E i \in 0..Len(v) :
       /\ i + Len(s) <= Len(v)
       /\ SubSeq(v, i + 1, i + Len(s)) = s
       /\ \A n \in 1..i : v[n] \in Whitespace
       /\ \A n \in (i + Len(s) + 1)..Len(v) : v[n] \in Whitespace
\* A field value as a note should hold it.
GoodText(x) == x.k = "str" /\ Trimmed(x.s)
\* Bodies that fail validation, as the interface describes them.
InvalidPostBody(b) == \E f \in Fields : b[f].k # "str" \/ Blank(b[f].s)
InvalidPutBody(b) == \E f \in Fields : b[f].k = "str" /\ Blank(b[f].s)
\* PUT bodies that pass validation: each field left out, null, or a string
\* with a non-whitespace character.
ValidPutBody(b) ==
  \A f \in Fields : b[f] \in {JAbsent, JNull} \/ (b[f].k = "str" /\ ~Blank(b[f].s))
Stored(d, k) == d[CHOOSE n \in 1..Len(d) : d[n].key = k].note

\* C1: every note held in NOTES_STORE has a title and a content that are
\* strings, non-empty and without leading or trailing whitespace.
\* (Violated: PUT with a field given as JSON null stores None in that field.)
C1_StoredFieldsTrimmed ==
  \A n \in 1..Len(NOTES_STORE) :
    \A f \in Fields : GoodText(NOTES_STORE[n].note[f])

\* C2: a PUT answered 200 changes exactly the fields the body supplies: a
\* field left out keeps its stored value, a supplied string is stored trimmed
\* (a supplied null is stored as null), the id is kept, and the response is
\* the note now stored under that id.
C2_PutChangesSuppliedFields ==
  [][(req'.op = "update_note" /\ resp'.status = 200) =>
       LET i == req'.id
           b == req'.body
       IN /\ i \in Keys(NOTES_STORE) /\ i \in Keys(NOTES_STORE')
          /\ Stored(NOTES_STORE', i).id = Stored(NOTES_STORE, i).id
          /\ \A f \in Fields :
               IF b[f] = JAbsent
               THEN Stored(NOTES_STORE', i)[f] = Stored(NOTES_STORE, i)[f]
               ELSE IF b[f] = JNull
               THEN Stored(NOTES_STORE', i)[f] = JNull
               ELSE /\ Stored(NOTES_STORE', i)[f].k = "str"
                    /\ IsTrimOf(Stored(NOTES_STORE', i)[f].s, b[f].s)
          /\ resp'.note = Stored(NOTES_STORE', i)]_vars

\* A title-only PUT has changed the title of a note whose content differs
\* from the new title.
C2_Witness ==
  /\ req.op = "update_note" /\ resp.status = 200
  /\ req.body.title = JStr(<<"a", "a">>) /\ req.body.content = JAbsent
  /\ resp.note.title = JStr(<<"a", "a">>) /\ resp.note.content = Plain
  /\ Stored(NOTES_STORE, req.id) = resp.note

\* C3: a POST or PUT whose body fails validation is answered 422 and leaves
\* the store exactly as it was.
C3_InvalidBodyRejected ==
  [][((req'.op = "create_note" /\ InvalidPostBody(req'.body))
        \/ (req'.op = "update_note" /\ InvalidPutBody(req'.body))) =>
       (resp'.status = 422 /\ NOTES_STORE' = NOTES_STORE)]_vars

\* A PUT with a whitespace-only title on an existing note was answered 422.
C3_Witness ==
  /\ req.op = "update_note" /\ req.id \in Keys(NOTES_STORE)
  /\ req.body.title = JStr(<<" ">>)
  /\ resp.status = 422

\* C4: GET, PUT with a valid body, and DELETE on a well-formed id that is not
\* a key of the store return 404 "Note not found" and leave the store unchanged.
C4_AbsentIdNotFound ==
  [][(/\ req'.id \in UUIDs
      /\ req'.id \notin Keys(NOTES_STORE)
      /\ \/ req'.op \in {"get_note", "delete_note"}
         \/ req'.op = "update_note" /\ ValidPutBody(req'.body)) =>
       (/\ resp'.status = 404
        /\ resp'.detail = "Note not found"
        /\ NOTES_STORE' = NOTES_STORE)]_vars

\* A PUT with a valid body on an unused id was answered 404 while another
\* note is stored.
C4_Witness ==
  /\ req.op = "update_note" /\ req.id \in UUIDs \ Keys(NOTES_STORE)
  /\ req.body.title = Plain
  /\ resp.status = 404
  /\ NOTES_STORE # <<>>
\* C5 as stated: once DELETE has answered 204 for an id, every later GET, PUT
\* or DELETE on that id is answered 404.
\* (Violated: a later PUT whose body fails validation is answered 422.)
C5_DeletedAlways404 ==
  [][(req'.id \in deleted /\ req'.op \in {"get_note", "update_note", "delete_note"}) =>
       resp'.status = 404]_vars

\* C5 amended: once DELETE has answered 204 for an id, every later GET and
\* DELETE on that id, and every later PUT with a valid body, is answered 404;
\* a later PUT whose body fails validation is answered 422; and the id does
\* not come back into the store.
C5_DeletedStaysGone ==
  [][(req'.id \in deleted /\ req'.op \in {"get_note", "update_note", "delete_note"}) =>
       (/\ resp'.status =
             IF req'.op = "update_note" /\ ~ValidPutBody(req'.body) THEN 422 ELSE 404
        /\ req'.id \notin Keys(NOTES_STORE'))]_vars

\* A GET on a deleted id was answered 404 after a later note was created.
C5_Witness ==
  /\ req.op = "get_note" /\ req.id \in deleted
  /\ resp.status = 404
  /\ NOTES_STORE # <<>>

\* C6: GET /notes returns exactly the notes created by a successful POST and
\* not since removed by a successful DELETE, each once and with its current
\* title and content; so its length is the number of such notes.
C6_ListIsLiveNotes ==
  req.op = "list_notes" =>
    /\ resp.status = 200
    /\ {resp.list[n].id : n \in 1..Len(resp.list)} = created \ deleted
    /\ Len(resp.list) = Cardinality(created \ deleted)
    /\ \A n \in 1..Len(resp.list) : resp.list[n] = lastSeen[resp.list[n].id]

\* GET /notes returned two notes, one of them updated since its creation.
C6_Witness ==
  /\ req.op = "list_notes"
  /\ Len(resp.list) = 2
  /\ \E n \in 1..2 : pristine[resp.list[n].id] = NoBody

\* C7: a GET on an id created by POST with title t and content c, before any
\* successful PUT or DELETE on that id, returns that id with t and c trimmed.
C7_CreateGetRoundTrip ==
  (req.op = "get_note" /\ req.id \in UUIDs /\ pristine[req.id] # NoBody) =>
    /\ resp.status = 200
    /\ resp.note.id = req.id
    /\ \A f \in Fields :
         /\ resp.note[f].k = "str"
         /\ resp.note[f].s # <<>>
         /\ IsTrimOf(resp.note[f].s, pristine[req.id][f].s)

\* A GET returned a note that was posted with whitespace around its title.
C7_Witness ==
  /\ req.op = "get_note" /\ req.id \in UUIDs
  /\ pristine[req.id].title = JStr(<<" ", "a">>)
  /\ resp.status = 200
  /\ resp.note.title = Plain

\* C8 as stated: GET with a path value that is no UUID is answered 404
\* "Note not found".
\* (Violated: path-parameter validation answers 422.)
C8_MalformedIs404 ==
  (req.op = "get_note" /\ req.id \notin UUIDs) =>
    (resp.status = 404 /\ resp.detail = "Note not found")

\* C8 amended: GET with a path value that is no UUID is answered 422, not the
\* 404 of an unknown id, whatever the store holds, and the store is unchanged.
C8_MalformedIs422 ==
  [][(req'.op = "get_note" /\ req'.id \notin UUIDs) =>
       (resp'.status = 422 /\ NOTES_STORE' = NOTES_STORE)]_vars

\* A GET with a malformed id was answered while the store holds a note.
C8_Witness ==
  /\ req.op = "get_note" /\ req.id = Malformed
  /\ resp.status = 422
  /\ NOTES_STORE # <<>>

\* C9: the id of a note created by POST is not, and never was, a key of the
\* store: the POST adds exactly one entry, leaves the existing entries as they
\* were, and brings no deleted id back.
C9_CreatedIdIsNew ==
  [][(req'.op = "create_note" /\ resp'.status = 201) =>
       (/\ resp'.note.id \notin everKeys
        /\ resp'.note.id \notin Keys(NOTES_STORE)
        /\ resp'.note.id \in Keys(NOTES_STORE')
        /\ Len(NOTES_STORE') = Len(NOTES_STORE) + 1
        /\ \A n \in 1..Len(NOTES_STORE) : NOTES_STORE'[n] = NOTES_STORE[n]
        /\ deleted \cap Keys(NOTES_STORE') = {})]_vars

\* A POST succeeded after an earlier note had been deleted.
C9_Witness ==
  /\ req.op = "create_note" /\ resp.status = 201
  /\ deleted # {}
  /\ resp.note.id \notin deleted

\* C10: the note stored under key k has id k, which is the id a POST
\* returned; a PUT answers with the id of its path, whatever its body holds.
C10_IdImmutable ==
  /\ \A n \in 1..Len(NOTES_STORE) :
       /\ NOTES_STORE[n].note.id = NOTES_STORE[n].key
       /\ NOTES_STORE[n].key \in created
  /\ (req.op = "update_note" /\ resp.status = 200) => resp.note.id = req.id

\* A PUT whose body carries another note's id in an "id" key succeeded.
C10_Witness ==
  /\ req.op = "update_note" /\ resp.status = 200
  /\ req.body.id \in UUIDs /\ req.body.id # req.id
  /\ Stored(NOTES_STORE, req.id).id = req.id
\* C11: GET /notes returns the current notes in the order in which they were
\* created; a successful PUT keeps every note at its position, and a
\* successful DELETE removes one note and keeps the others in their order.
IdsOf(l) == [n \in 1..Len(l) |-> l[n].id]
RECURSIVE Without(_, _)
Without(q, S) ==
  IF q = <<>> THEN <<>>
  ELSE IF Head(q) \in S THEN Without(Tail(q), S)
  ELSE <<Head(q)>> \o Without(Tail(q), S)
C12_OnlyOwnEntryChanges ==
  [][/\ (req'.op \in {"health_check", "list_notes", "get_note"}
           \/ resp'.status \notin {200, 201, 204}) =>
          NOTES_STORE' = NOTES_STORE
     /\ (req'.op = "create_note" /\ resp'.status = 201) =>
          /\ Keys(NOTES_STORE') = Keys(NOTES_STORE) \cup {resp'.note.id}
          /\ \A k \in Keys(NOTES_STORE) :
               Stored(NOTES_STORE', k) = Stored(NOTES_STORE, k)
     /\ req'.op \in {"update_note", "delete_note"} =>
          /\ Keys(NOTES_STORE') \subseteq Keys(NOTES_STORE)
          /\ \A k \in Keys(NOTES_STORE) \ {req'.id} :
               /\ k \in Keys(NOTES_STORE')
               /\ Stored(NOTES_STORE', k) = Stored(NOTES_STORE, k)]_vars

\* A DELETE removed the later of two notes and the earlier one is still stored.
C12_Witness ==
  /\ req.op = "delete_note" /\ resp.status = 204
  /\ Len(order) = 2 /\ req.id = order[2]
  /\ Keys(NOTES_STORE) = {order[1]}
\* C16: in PUT /notes/{id} body validation comes before the existence check:
\* a body that fails validation is answered 422 whether or not the id is in
\* the store, 404 is answered exactly when the body is valid and the id is a
\* UUID absent from the store, and in both cases the store is unchanged.
C16_ValidationBeforeLookup ==
  [][req'.op = "update_note" =>
       /\ ~ValidPutBody(req'.body) => resp'.status = 422
       /\ resp'.status = 404 <=>
            (/\ ValidPutBody(req'.body)
             /\ req'.id \in UUIDs
             /\ req'.id \notin Keys(NOTES_STORE))
       /\ resp'.status \in {404, 422} => NOTES_STORE' = NOTES_STORE]_vars

\* A PUT with an empty title on an id that is not in the store was answered
\* 422 while another note is stored.
C16_Witness ==
  /\ req.op = "update_note" /\ req.id \in UUIDs \ Keys(NOTES_STORE)
  /\ req.body.title = JStr(<<>>)
  /\ resp.status = 422
  /\ NOTES_STORE # <<>>
\* C13: when handler steps interleave, a note whose DELETE has returned 204
\* is not in the store afterwards (a concurrent PUT cannot put it back).
\* (Violated: update_note looks the note up, the DELETE runs to its end, and
\* the write of line 194 puts the key back.)
C13_DeletedNotRestored ==
  \A t \in Threads :
    (At(t, "delete_note", "done") /\ threads[t].status = 204) =>
      threads[t].path \notin Keys(NOTES_STORE)

\* C14: when DELETE requests on the same id interleave, every DELETE ends in
\* 204 or 404, and at most one of them in 204.
\* (Violated: both pass the membership test, the second del raises KeyError.)
C14_DeleteEnds204Or404 ==
  /\ \A t \in Threads :
       At(t, "delete_note", "done") => threads[t].status \in {204, 404}
  /\ \A t, u \in Threads :
       (/\ t # u
        /\ At(t, "delete_note", "done") /\ At(u, "delete_note", "done")
        /\ threads[t].path = threads[u].path
        /\ threads[t].status = 204) => threads[u].status = 404

\* C15: when two PUTs on the same id interleave, one supplying only the title
\* and the other only the content, then once both have returned 200 the stored
\* note carries the new title and the new content.
\* (Violated: both read the note before either writes; the later write puts
\* the old value of the other field back.)
C15_NoLostUpdate ==
  \A t, u \in Threads :
    (/\ At(t, "update_note", "done") /\ threads[t].status = 200
     /\ At(u, "update_note", "done") /\ threads[u].status = 200
     /\ threads[t].path = threads[u].path
     /\ threads[t].body.title.k = "str" /\ threads[t].body.content = JAbsent
     /\ threads[u].body.content.k = "str" /\ threads[u].body.title = JAbsent
     /\ threads[t].path \in Keys(NOTES_STORE)) =>
      /\ IsTrimOf(Stored(NOTES_STORE, threads[t].path).title.s, threads[t].body.title.s)
      /\ IsTrimOf(Stored(NOTES_STORE, threads[t].path).content.s, threads[u].body.content.s)

====
